---- MODULE Spec2Model ----
(***************************************************************************)
(* Contract lifecycle, audit trail and bulk import of the finlitte CRM      *)
(* server (server/server.js, here src/unnamed/part_009), the SQLite schema  *)
(* (src/server/database.js) and the dashboard's status classifier and tab   *)
(* filter (src/components/Dashboard.tsx).                                   *)
(*                                                                         *)
(* Spec        : the server, one request handled to completion per step,   *)
(*               the database never failing a statement.                   *)
(* SpecDash    : the dashboard's pure functions, applied to bounded inputs.*)
(* SpecAudit   : the lifecycle routes with history inserts that may fail.  *)
(* SpecTasks   : the task routes over a clock of days.                     *)
(* SpecView    : the dashboard loading the contracts the routes store.     *)
(* SpecOverlap : the lifecycle routes one callback per step, the           *)
(*               statements of overlapping requests interleaved.           *)
(***************************************************************************)
EXTENDS Integers, Sequences, FiniteSets, TLC

VARIABLES
    contracts,   \* table contracts: id -> row
    nextId,      \* AUTOINCREMENT counter of contracts
    history,     \* table history, in rowid order
    now,         \* the server clock, in milliseconds past the model's epoch
    nreq,        \* number of requests to the contract-writing routes so far
    prev,        \* the request handled before the last one
    req,         \* the last request: its route, the id it names, its batch
    res,         \* the response to the last request
    dash,        \* the dashboard: today, time zone, active tab, one contract,
                 \* and the contracts it loaded from the server
    audit,       \* "ok", or "fail" while INSERT INTO history ends in an error
    tasks,       \* table tasks, its AUTOINCREMENT counter, the last task response
    day,         \* the server clock of the task routes, in days
    inflight     \* the requests whose callbacks are pending, by request slot

vars ==
    <<contracts, nextId, history, now, nreq, prev, req, res, dash, audit,
      tasks, day, inflight>>

-----------------------------------------------------------------------------
(* Bounds of the model.                                                    *)

MaxRequests == 3      \* requests handled in one behaviour
MaxTime == 1          \* clock ticks
MaxBatch == 2         \* rows in one import batch
MaxId == 2            \* the largest contract id a request names
MaxDayDiff == 33      \* calendar days between today and valid-until, each way
MaxTasks == 2         \* tasks created in one behaviour
MaxDay == 8           \* days the clock of the task routes advances
MaxInflight == 2      \* requests whose callbacks are pending at one time

-----------------------------------------------------------------------------
(* JavaScript and SQL values.                                              *)

\* JSON null in a request body, which node-sqlite3 binds as SQL NULL and
\* SQLite returns as null.
NULL == "<null>"

\* String(v) for a text value: String(null) is "null".
Str(v) == IF v = NULL THEN "null" ELSE v

\* Falsy that takes the empty string for a value.
FalsyNullOnly(v) == v = NULL

\* !v for a text value.
Falsy(v) == v = NULL \/ v = ""

\* a = b in a WHERE clause: never true when either side is NULL.
SqlEq(a, b) == a # NULL /\ b # NULL /\ a = b

\* new Date().toISOString() at clock value t; the date part is the same for
\* every t of the model, the milliseconds differ.
Iso(t) == "2026-11-04T10:00:00.00" \o ToString(t) \o "Z"

\* new Date().toISOString().split('T')[0]
Today == "2026-11-04"

-----------------------------------------------------------------------------
(* Sessions.                                                               *)

NoSession == [userId |-> 0, username |-> "", role |-> ""]

Sessions ==
    { NoSession,
      [userId |-> 1, username |-> "admin", role |-> "admin"],
      [userId |-> 2, username |-> "sale", role |-> "sales"],
      [userId |-> 3, username |-> "view", role |-> "viewer"] }

isAuthenticated(sess) == sess.userId # 0

\* hasRole that lets every session with a role pass.
hasRoleAny(allowedRoles, sess) == sess.role # ""

hasRole(allowedRoles, sess) == sess.role # "" /\ sess.role \in allowedRoles

-----------------------------------------------------------------------------
(* Request bodies of POST /api/contracts.                                  *)

fieldsToCheck ==
    << [key |-> "draudejas", label |-> "Client"],
       [key |-> "pardavejas", label |-> "Salesperson"],
       [key |-> "ldGrupe", label |-> "Type"],
       [key |-> "policyNo", label |-> "Policy No"],
       [key |-> "galiojaNuo", label |-> "Valid From"],
       [key |-> "galiojaIki", label |-> "Valid Until"],
       [key |-> "valstybinisNr", label |-> "Reg No"],
       [key |-> "metineIsmoka", label |-> "Yearly Price"],
       [key |-> "ismoka", label |-> "Payout"] >>

NumericKeys == {"metineIsmoka", "ismoka"}

BasePayload ==
    [ id |-> 0,
      draudejas |-> "Jonas", pardavejas |-> "S1", ldGrupe |-> "KASKO",
      policyNo |-> "POL-1", galiojaNuo |-> "2026-01-01",
      galiojaIki |-> "2027-01-01", valstybinisNr |-> "ABC123",
      metineIsmoka |-> 100, ismoka |-> 1000, notes |-> <<>>,
      is_archived |-> 0 ]

\* The other value each field takes in the model.
AltPayload ==
    [ id |-> 0,
      draudejas |-> "Petras", pardavejas |-> "S2", ldGrupe |-> "TPVCA",
      policyNo |-> "POL-2", galiojaNuo |-> "2026-02-01",
      galiojaIki |-> "2027-02-01", valstybinisNr |-> NULL,
      metineIsmoka |-> 150, ismoka |-> 2000, notes |-> <<"n1">>,
      is_archived |-> 1 ]

BusinessKeys == { fieldsToCheck[i].key : i \in 1..Len(fieldsToCheck) }

\* The base body, the bodies that differ from it in one field, the body with
\* both key fields changed, bodies with other notes, the bodies that lack
\* a required field, and the body of an archived contract. is_archived is the
\* flag the dashboard's Contract carries, false as 0 and true as 1.
Payloads ==
    { BasePayload }
    \cup { [BasePayload EXCEPT ![k] = AltPayload[k]] : k \in BusinessKeys }
    \cup { [BasePayload EXCEPT !.policyNo = "POL-2", !.valstybinisNr = NULL],
           [BasePayload EXCEPT !.notes = <<"n1">>],
           [BasePayload EXCEPT !.notes = <<"n2">>],
           [BasePayload EXCEPT !.notes = <<"n1", "n2">>],
           [BasePayload EXCEPT !.draudejas = ""],
           [BasePayload EXCEPT !.policyNo = NULL],
           [BasePayload EXCEPT !.galiojaIki = ""],
           [BasePayload EXCEPT !.is_archived = 1] }

\* ids a request may name: 0 is "no id"; an id names no row before it is
\* assigned and after its row is deleted.
RequestIds == 0..MaxId

\* The bodies without an id: those that differ in the key fields or the notes,
\* and those that lack a required field.
CreateBodies ==
    { BasePayload,
      [BasePayload EXCEPT !.policyNo = "POL-2"],
      [BasePayload EXCEPT !.valstybinisNr = NULL],
      [BasePayload EXCEPT !.policyNo = "POL-2", !.valstybinisNr = NULL],
      [BasePayload EXCEPT !.notes = <<"n1">>],
      [BasePayload EXCEPT !.draudejas = ""],
      [BasePayload EXCEPT !.policyNo = NULL],
      [BasePayload EXCEPT !.galiojaIki = ""] }

Bodies ==
    CreateBodies
    \cup { [p EXCEPT !.id = i] : p \in Payloads, i \in RequestIds \ {0} }

\* The requests to POST /api/contracts: every body from the administrator,
\* the base body with and without an id from the other sessions.
PostInputs ==
    { <<sess, c>> \in Sessions \X Bodies :
        sess.role = "admin" \/ (c \in {BasePayload, [BasePayload EXCEPT !.id = 1]}) }

\* The requests to the archive and delete routes: every id from the
\* administrator, id 1 from the other sessions.
IdInputs ==
    { <<sess, id>> \in Sessions \X (RequestIds \ {0}) : sess.role = "admin" \/ id = 1 }

-----------------------------------------------------------------------------
(* Rows and responses.                                                     *)

\* String(v) for the value of field k.
StrOf(k, v) == IF k \in NumericKeys THEN ToString(v) ELSE Str(v)

\* A request as the routes see it: the route, the id in the path or in the
\* body (0 for none), and the rows of an import.
Request(route, id, batch) == [ route |-> route, id |-> id, batch |-> batch ]

NoRequest == Request("", 0, <<>>)

\* res.status(status).json(...): the fields the routes put in a response.
Response(status, message, id) ==
    [ status |-> status, message |-> message, id |-> id,
      is_archived |-> FALSE, success |-> 0, failed |-> 0, errors |-> <<>> ]

NoResponse == Response(0, "", 0)

Ids == DOMAIN contracts

-----------------------------------------------------------------------------
(* Audit recorder.                                                         *)

\* logHistory as INSERT OR REPLACE keyed by the contract: the entries the
\* contract had are dropped.
logHistoryReplace(h, contractId, userId, username, action, details) ==
    Append(SelectSeq(h, LAMBDA e : e.contract_id # contractId),
           [ id |-> Len(h) + 1, contract_id |-> contractId,
             user_id |-> userId, username |-> username,
             timestamp |-> now, action |-> action, details |-> details ])

\* logHistory: INSERT INTO history; the rowid is the next AUTOINCREMENT value
\* and the timestamp is the clock at the call. When the insert ends in an
\* error the callback logs it to the console and the table is as it was.
logHistory(h, contractId, userId, username, action, details) ==
    IF audit = "fail" THEN h
    ELSE Append(h, [ id |-> Len(h) + 1, contract_id |-> contractId,
                     user_id |-> userId, username |-> username,
                     timestamp |-> now, action |-> action, details |-> details ])

\* action.toLowerCase() for the two actions of the archive route.
toLowerCase(action) ==
    CASE action = "ARCHIVED" -> "archived"
      [] action = "RESTORED" -> "restored"
      [] OTHER -> action

-----------------------------------------------------------------------------
(* Change diff of the update branch.                                       *)

\* ChangeLine with the body's value printed on both sides of the arrow.
ChangeLineNewTwice(field, old, c) ==
    field.label \o ": " \o StrOf(field.key, c[field.key]) \o " -> "
        \o StrOf(field.key, c[field.key])

\* `${field.label}: ${oldContract[field.key]} -> ${c[field.key]}`
ChangeLine(field, old, c) ==
    field.label \o ": " \o StrOf(field.key, old[field.key]) \o " -> "
        \o StrOf(field.key, c[field.key])

RECURSIVE FieldChanges(_, _, _)
\* fieldsToCheck.forEach from field i on: one line per field whose String()
\* differs between the stored row and the body.
FieldChanges(old, c, i) ==
    IF i > Len(fieldsToCheck) THEN <<>>
    ELSE LET field == fieldsToCheck[i]
         IN  (IF StrOf(field.key, old[field.key]) # StrOf(field.key, c[field.key])
              THEN <<ChangeLine(field, old, c)>>
              ELSE <<>>)
             \o FieldChanges(old, c, i + 1)

\* NotesChange comparing the stored string with the body's array, which never
\* are equal.
NotesChangeAlways(old, c) ==
    IF Len(c.notes) > Len(old.notes)
    THEN << "Added note: \"" \o c.notes[Len(c.notes)] \o "\"" >>
    ELSE IF Len(c.notes) < Len(old.notes) THEN << "Removed note" >>
    ELSE << "Notes updated" >>

\* The notes column holds JSON.stringify(list), which is one-to-one on lists
\* of strings: the list stands for its serialisation, and the comparison
\* oldContract.notes !== notesStr is the comparison of the lists.
NotesChange(old, c) ==
    IF old.notes = c.notes THEN <<>>
    ELSE IF Len(c.notes) > Len(old.notes)
         THEN << "Added note: \"" \o c.notes[Len(c.notes)] \o "\"" >>
    ELSE IF Len(c.notes) < Len(old.notes) THEN << "Removed note" >>
    ELSE << "Notes updated" >>

\* The array changes of the update branch.
Changes(old, c) == FieldChanges(old, c, 1) \o NotesChange(old, c)

RECURSIVE Join(_)
\* changes.join('; ')
Join(lines) ==
    IF Len(lines) = 0 THEN ""
    ELSE IF Len(lines) = 1 THEN lines[1]
    ELSE lines[1] \o "; " \o Join(Tail(lines))

-----------------------------------------------------------------------------
(* Contract repository statements.                                         *)

\* MatchByKey with the two parameters bound in the other order.
MatchByKeySwapped(cs, policyNo, valstybinisNr) ==
    { i \in DOMAIN cs : SqlEq(cs[i].policyNo, valstybinisNr)
                        /\ SqlEq(cs[i].valstybinisNr, policyNo) }

\* SELECT id FROM contracts WHERE policyNo = ? AND valstybinisNr = ?
\* (the rows that match; db.get returns the first of them, or none).
MatchByKey(cs, policyNo, valstybinisNr) ==
    { i \in DOMAIN cs : SqlEq(cs[i].policyNo, policyNo)
                        /\ SqlEq(cs[i].valstybinisNr, valstybinisNr) }

\* INSERT INTO contracts (...) VALUES (..., 0) of the create branch.
InsertRow(id, c, notes, updated) ==
    [ id |-> id,
      draudejas |-> c.draudejas, pardavejas |-> c.pardavejas,
      ldGrupe |-> c.ldGrupe, policyNo |-> c.policyNo,
      galiojaNuo |-> c.galiojaNuo, galiojaIki |-> c.galiojaIki,
      valstybinisNr |-> c.valstybinisNr,
      metineIsmoka |-> c.metineIsmoka, ismoka |-> c.ismoka,
      notes |-> notes, atnaujinimoData |-> updated, is_archived |-> 0 ]

\* UpdateRow with is_archived in the SET list, bound to the body's flag.
UpdateRowWithFlag(old, c, updated) ==
    [ old EXCEPT
        !.draudejas = c.draudejas, !.pardavejas = c.pardavejas,
        !.ldGrupe = c.ldGrupe, !.policyNo = c.policyNo,
        !.galiojaNuo = c.galiojaNuo, !.galiojaIki = c.galiojaIki,
        !.valstybinisNr = c.valstybinisNr,
        !.metineIsmoka = c.metineIsmoka, !.ismoka = c.ismoka,
        !.notes = c.notes, !.atnaujinimoData = updated,
        !.is_archived = c.is_archived ]

\* UPDATE contracts SET <nine fields>, notes, atnaujinimoData WHERE id = ?
UpdateRow(old, c, updated) ==
    [ old EXCEPT
        !.draudejas = c.draudejas, !.pardavejas = c.pardavejas,
        !.ldGrupe = c.ldGrupe, !.policyNo = c.policyNo,
        !.galiojaNuo = c.galiojaNuo, !.galiojaIki = c.galiojaIki,
        !.valstybinisNr = c.valstybinisNr,
        !.metineIsmoka = c.metineIsmoka, !.ismoka = c.ismoka,
        !.notes = c.notes, !.atnaujinimoData = updated ]

\* NewStatus that archives whatever the stored flag is.
NewStatusStuck(row) == 1

\* const newStatus = row.is_archived === 1 ? 0 : 1
NewStatus(row) == IF row.is_archived = 1 THEN 0 ELSE 1

\* ArchiveAction named after the flag that was replaced.
ArchiveActionOld(newStatus) == IF newStatus = 1 THEN "RESTORED" ELSE "ARCHIVED"

\* const action = newStatus === 1 ? 'ARCHIVED' : 'RESTORED'
ArchiveAction(newStatus) == IF newStatus = 1 THEN "ARCHIVED" ELSE "RESTORED"

\* DeleteRow undone when the history insert that follows it fails.
DeleteRowRolledBack(cs, id) ==
    IF audit = "fail" THEN cs ELSE [ i \in (DOMAIN cs) \ {id} |-> cs[i] ]

\* DeleteRow whose WHERE clause matches no row.
DeleteRowNone(cs, id) == cs

\* The table without the row of this id (DELETE FROM contracts WHERE id = ?).
DeleteRow(cs, id) == [ i \in (DOMAIN cs) \ {id} |-> cs[i] ]

\* GET /api/contracts and GET /api/contracts/archived: the ids returned.
ListActive == { i \in Ids : contracts[i].is_archived = 0 }

ListArchived == { i \in Ids : contracts[i].is_archived = 1 }

\* GET /api/contracts/:id/history: the rows of the id; ORDER BY timestamp DESC
\* fixes their order up to rows of equal timestamp.
HistoryOf(id) == SelectSeq(history, LAMBDA e : e.contract_id = id)

\* The orders of the sequence q: q read through a permutation of its indices.
Reorderings(q) ==
    { [ n \in 1..Len(q) |-> q[p[n]] ] :
        p \in { f \in [1..Len(q) -> 1..Len(q)] :
                   \A m, n \in 1..Len(q) : m # n => f[m] # f[n] } }

\* GET /api/contracts/:id/history: the results that SELECT * FROM history
\* WHERE contract_id = ? ORDER BY timestamp DESC may return. Rows of equal
\* timestamp come in an order the statement does not fix.
GetHistory(id) ==
    { rows \in Reorderings(HistoryOf(id)) :
        \A m, n \in 1..Len(rows) : m < n => rows[m].timestamp >= rows[n].timestamp }

-----------------------------------------------------------------------------
(* Lifecycle routes.                                                       *)

Reject(status, message) ==
    /\ res' = Response(status, message, 0)
    /\ UNCHANGED <<contracts, nextId, history>>

\* UpdateContract that stores the body as a new row when the id names none.
UpdateContractUpsert(sess, c) ==
    IF c.id \notin Ids
    THEN /\ contracts' = (nextId :> InsertRow(nextId, c, c.notes, Iso(now))) @@ contracts
         /\ nextId' = nextId + 1
         /\ history' = logHistory(history, nextId, sess.userId, sess.username,
                                  "CREATED", "Contract created")
         /\ res' = Response(200, "Created", nextId)
    ELSE /\ contracts' = [contracts EXCEPT ![c.id] = UpdateRow(contracts[c.id], c, Iso(now))]
         /\ history' = IF Len(Changes(contracts[c.id], c)) > 0
                       THEN logHistory(history, c.id, sess.userId, sess.username,
                                       "UPDATED", Join(Changes(contracts[c.id], c)))
                       ELSE history
         /\ res' = Response(200, "Updated", c.id)
         /\ UNCHANGED nextId

\* The update branch of POST /api/contracts (c.id is set).
UpdateContract(sess, c) ==
    IF c.id \notin Ids
    THEN Reject(404, "Contract not found")
    ELSE LET oldContract == contracts[c.id]
             changes == Changes(oldContract, c)
         IN  /\ contracts' = [contracts EXCEPT ![c.id] = UpdateRow(oldContract, c, Iso(now))]
             /\ history' = IF Len(changes) > 0
                           THEN logHistory(history, c.id, sess.userId, sess.username,
                                           "UPDATED", Join(changes))
                           ELSE history
             /\ res' = Response(200, "Updated", c.id)
             /\ UNCHANGED nextId

\* The create branch of POST /api/contracts (no c.id).
CreateContract(sess, c) ==
    IF MatchByKey(contracts, c.policyNo, c.valstybinisNr) # {}
    THEN Reject(409, "Sutartis su tokiu poliso numeriu ir objektu jau egzistuoja.")
    ELSE /\ contracts' = (nextId :> InsertRow(nextId, c, c.notes, Iso(now))) @@ contracts
         /\ nextId' = nextId + 1
         /\ history' = logHistory(history, nextId, sess.userId, sess.username,
                                  "CREATED", "Contract created")
         /\ res' = Response(200, "Created", nextId)

\* app.post('/api/contracts', isAuthenticated, hasRole(['admin','sales']), ...)
PostContract(sess, c) ==
    /\ nreq < MaxRequests
    /\ nreq' = nreq + 1
    /\ prev' = req
    /\ req' = Request("POST /api/contracts", c.id, <<>>)
    /\ UNCHANGED <<now, dash, audit, tasks, day, inflight>>
    /\ IF ~isAuthenticated(sess)
       THEN Reject(401, "Unauthorized")
       ELSE IF ~hasRole({"admin", "sales"}, sess)
       THEN Reject(403, "Forbidden: Insufficient permissions")
       ELSE IF Falsy(c.draudejas) \/ Falsy(c.policyNo) \/ Falsy(c.galiojaIki)
       THEN Reject(400, "Missing required fields")
       ELSE IF c.id # 0 THEN UpdateContract(sess, c)
       ELSE CreateContract(sess, c)

\* app.post('/api/contracts/:id/archive', isAuthenticated, hasRole([...]), ...)
PostArchive(sess, id) ==
    /\ nreq < MaxRequests
    /\ nreq' = nreq + 1
    /\ prev' = req
    /\ req' = Request("POST /api/contracts/:id/archive", id, <<>>)
    /\ UNCHANGED <<now, dash, audit, tasks, day, inflight>>
    /\ IF ~isAuthenticated(sess)
       THEN Reject(401, "Unauthorized")
       ELSE IF ~hasRole({"admin", "sales"}, sess)
       THEN Reject(403, "Forbidden: Insufficient permissions")
       ELSE IF id \notin Ids
       THEN Reject(404, "Contract not found")
       ELSE LET newStatus == NewStatus(contracts[id])
                action == ArchiveAction(newStatus)
            IN  /\ contracts' = [contracts EXCEPT ![id].is_archived = newStatus,
                                                  ![id].atnaujinimoData = Iso(now)]
                /\ history' = logHistory(history, id, sess.userId, sess.username,
                                         action, "Contract " \o toLowerCase(action))
                /\ res' = [Response(200, action, 0)
                              EXCEPT !.is_archived = (newStatus # 0)]
                /\ UNCHANGED nextId

\* app.delete('/api/contracts/:id', isAuthenticated, hasRole(['admin']), ...)
DeleteContract(sess, id) ==
    /\ nreq < MaxRequests
    /\ nreq' = nreq + 1
    /\ prev' = req
    /\ req' = Request("DELETE /api/contracts/:id", id, <<>>)
    /\ UNCHANGED <<now, dash, audit, tasks, day, inflight>>
    /\ IF ~isAuthenticated(sess)
       THEN Reject(401, "Unauthorized")
       ELSE IF ~hasRole({"admin"}, sess)
       THEN Reject(403, "Forbidden: Insufficient permissions")
       ELSE /\ contracts' = DeleteRow(contracts, id)
            /\ history' = logHistory(history, id, sess.userId, sess.username,
                                     "DELETED", "Contract permanently deleted")
            /\ res' = Response(200, "Deleted", 0)
            /\ UNCHANGED nextId

\* The history table starts or stops rejecting inserts (the err of the
\* callback of db.run in logHistory).
AuditFault ==
    /\ audit' = (IF audit = "ok" THEN "fail" ELSE "ok")
    /\ UNCHANGED <<contracts, nextId, history, now, nreq, prev, req, res, dash,
                   tasks, day, inflight>>

\* The clock advances between statements.
Tick ==
    /\ now < MaxTime
    /\ now' = now + 1
    /\ UNCHANGED <<contracts, nextId, history, nreq, prev, req, res, dash, audit,
                   tasks, day, inflight>>

-----------------------------------------------------------------------------
(* Bulk import: POST /api/webhook/n8n.                                     *)

\* A cell of an import row: a JSON string, a JSON number, or a missing key.
S(x) == [t |-> "str", s |-> x, n |-> 0]

N(x) == [t |-> "num", s |-> "", n |-> x]

Undefined == [t |-> "undef", s |-> "", n |-> 0]

\* The rows of the model, as objects column name -> cell. No row has two
\* columns that differ only in case.
Row1 ==
    ("Poliso Nr." :> S("POL-1")) @@ ("Valstybinis Nr." :> S("ABC123"))
    @@ ("KLIENTAS" :> S("Jonas")) @@ ("METINE_IMOKA" :> S("100"))
    @@ ("Galioja iki" :> N(46388))

\* The key of Row1 under other aliases, in another case and with blanks.
Row2 ==
    ("POLISO_NR" :> S(" POL-1 ")) @@ ("valstybinisnr" :> S("ABC123 "))
    @@ ("klientas" :> S("Petras")) @@ ("ISMOKA" :> N(2000))
    @@ ("galiojaIki" :> S("2027-02-01"))

\* No policy number.
Row3 == ("KLIENTAS" :> S("Petras")) @@ ("Valstybinis Nr." :> S("ABC123"))

\* A numeric registration number: .trim() throws.
Row4 == ("policyNo" :> S("POL-2")) @@ ("VALSTYBINIS_NR" :> N(123))

\* No registration number.
Row5 == ("policyNo" :> S("POL-2")) @@ ("Kuratorius" :> S("S2"))

ImportRows == {Row1, Row2, Row3, Row4, Row5}

RECURSIVE SeqsUpTo(_, _)
\* The sequences over S of length at most n.
SeqsUpTo(Set, n) ==
    IF n = 0 THEN { <<>> }
    ELSE LET shorter == SeqsUpTo(Set, n - 1)
         IN  shorter \cup { Append(q, x) : q \in shorter, x \in Set }

Batches == SeqsUpTo(ImportRows, MaxBatch)

\* k.toLowerCase() for the column names of the code and of the rows. The
\* aliases the code spells with Lithuanian letters are written without the
\* diacritics here.
Lower(k) ==
    CASE k \in {"Poliso Nr.", "poliso nr."} -> "poliso nr."
      [] k \in {"Poliso Nr", "poliso nr"} -> "poliso nr"
      [] k \in {"POLISO_NR", "poliso_nr"} -> "poliso_nr"
      [] k \in {"policyNo", "policyno"} -> "policyno"
      [] k \in {"Draudejo pavadinimas"} -> "draudejo pavadinimas"
      [] k \in {"KLIENTAS", "klientas"} -> "klientas"
      [] k \in {"draudejas"} -> "draudejas"
      [] k \in {"Kuratorius"} -> "kuratorius"
      [] k \in {"BROKERIS"} -> "brokeris"
      [] k \in {"pardavejas"} -> "pardavejas"
      [] k \in {"Draudimo rusis"} -> "draudimo rusis"
      [] k \in {"Draudimo produktas"} -> "draudimo produktas"
      [] k \in {"DRAUDIMO_PRODUKTAS"} -> "draudimo_produktas"
      [] k \in {"ldGrupe"} -> "ldgrupe"
      [] k \in {"Galioja nuo"} -> "galioja nuo"
      [] k \in {"POLISO_PRADZIA"} -> "poliso_pradzia"
      [] k \in {"galiojaNuo"} -> "galiojanuo"
      [] k \in {"Galioja iki"} -> "galioja iki"
      [] k \in {"POLISO_PABAIGA"} -> "poliso_pabaiga"
      [] k \in {"galiojaIki"} -> "galiojaiki"
      [] k \in {"Valstybinis Nr.", "valstybinis nr."} -> "valstybinis nr."
      [] k \in {"Valstybinis Nr"} -> "valstybinis nr"
      [] k \in {"VALSTYBINIS_NR"} -> "valstybinis_nr"
      [] k \in {"valstybinisNr", "valstybinisnr"} -> "valstybinisnr"
      [] k \in {"Metine imoka"} -> "metine imoka"
      [] k \in {"Pasirasyta imoka"} -> "pasirasyta imoka"
      [] k \in {"METINE_IMOKA"} -> "metine_imoka"
      [] k \in {"metineIsmoka"} -> "metineismoka"
      [] k \in {"Draudimo suma"} -> "draudimo suma"
      [] k \in {"ISMOKA", "ismoka"} -> "ismoka"
      [] k \in {"Atnaujini-mo data"} -> "atnaujini-mo data"
      [] k \in {"Atnaujinimo data"} -> "atnaujinimo data"
      [] k \in {"ATNAUJINIMO_DATA"} -> "atnaujinimo_data"
      [] OTHER -> k

\* getValue: the value under the key that equals `key` up to case.
getValue(obj, key) ==
    LET found == { k \in DOMAIN obj : Lower(k) = Lower(key) }
    IN  IF found = {} THEN Undefined ELSE obj[CHOOSE k \in found : TRUE]

\* JavaScript truthiness of a cell.
Truthy(v) == (v.t = "str" /\ v.s # "") \/ (v.t = "num" /\ v.n # 0)

\* a || b
Or(a, b) == IF Truthy(a) THEN a ELSE b

\* s.trim() for the strings of the model.
Trim(s) ==
    CASE s = " POL-1 " -> "POL-1"
      [] s = "ABC123 " -> "ABC123"
      [] OTHER -> s

\* String(v) for a cell.
StringOf(v) == IF v.t = "num" THEN ToString(v.n) ELSE v.s

\* Number(v) || 0 for the cells of the model: a string that is no number
\* gives NaN, and NaN || 0 is 0.
NumberOr0(v) ==
    CASE v.t = "num" -> v.n
      [] v.t = "str" /\ v.s = "100" -> 100
      [] v.t = "str" /\ v.s = "150" -> 150
      [] OTHER -> 0

\* parseDate: today for a falsy cell, the date of an Excel serial above
\* 20000, the date a string parses to, today otherwise.
parseDate(input) ==
    IF ~Truthy(input) THEN Today
    ELSE IF input.t = "num" /\ input.n > 20000
         THEN (CASE input.n = 46388 -> "2027-01-01"   \* (46388 - 25569) days past 1970-01-01
                 [] input.n = 46419 -> "2027-02-01"
                 [] OTHER -> "a later date")
    ELSE IF input.t = "num" THEN "1970-01-01"          \* new Date(n), n milliseconds
    ELSE IF input.s \in {"2026-01-01", "2026-02-01", "2027-01-01", "2027-02-01"}
         THEN input.s
    ELSE Today

\* const policyNo = getValue(...) || ... || getValue(item, 'policyNo')
PolicyNoOf(item) ==
    Or(getValue(item, "Poliso Nr."),
       Or(getValue(item, "Poliso Nr"),
          Or(getValue(item, "POLISO_NR"), getValue(item, "policyNo"))))

\* The cell (getValue(...) || ... || '') that valstybinisNr is trimmed from.
ValstybinisNrOf(item) ==
    Or(getValue(item, "Valstybinis Nr."),
       Or(getValue(item, "Valstybinis Nr"),
          Or(getValue(item, "VALSTYBINIS_NR"),
             Or(getValue(item, "valstybinisNr"), S("")))))

\* The cell that ldGrupe is trimmed from.
LdGrupeOf(item) ==
    Or(getValue(item, "Draudimo rusis"),
       Or(getValue(item, "Draudimo produktas"),
          Or(getValue(item, "DRAUDIMO_PRODUKTAS"),
             Or(getValue(item, "ldGrupe"), S("")))))

\* .trim() of a number is a TypeError.
Throws(item) == LdGrupeOf(item).t = "num" \/ ValstybinisNrOf(item).t = "num"

\* The object `contract` built from a row; TEXT columns hold a number as text.
Mapped(item) ==
    [ draudejas |-> StringOf(Or(getValue(item, "Draudejo pavadinimas"),
                                Or(getValue(item, "KLIENTAS"),
                                   Or(getValue(item, "draudejas"), S("Unknown"))))),
      pardavejas |-> StringOf(Or(getValue(item, "Kuratorius"),
                                 Or(getValue(item, "BROKERIS"),
                                    Or(getValue(item, "pardavejas"), S(""))))),
      ldGrupe |-> Trim(LdGrupeOf(item).s),
      policyNo |-> Trim(StringOf(PolicyNoOf(item))),
      galiojaNuo |-> parseDate(Or(getValue(item, "Galioja nuo"),
                                  Or(getValue(item, "POLISO_PRADZIA"),
                                     getValue(item, "galiojaNuo")))),
      galiojaIki |-> parseDate(Or(getValue(item, "Galioja iki"),
                                  Or(getValue(item, "POLISO_PABAIGA"),
                                     getValue(item, "galiojaIki")))),
      valstybinisNr |-> Trim(ValstybinisNrOf(item).s),
      metineIsmoka |-> NumberOr0(Or(getValue(item, "Metine imoka"),
                                    Or(getValue(item, "Pasirasyta imoka"),
                                       Or(getValue(item, "METINE_IMOKA"),
                                          getValue(item, "metineIsmoka"))))),
      ismoka |-> NumberOr0(Or(getValue(item, "Draudimo suma"),
                              Or(getValue(item, "ISMOKA"), getValue(item, "ismoka")))),
      atnaujinimoData |-> parseDate(Or(getValue(item, "Atnaujini-mo data"),
                                       Or(getValue(item, "Atnaujinimo data"),
                                          getValue(item, "ATNAUJINIMO_DATA")))) ]

\* ImportUpdateRow that writes the whole mapped object: is_archived: 0 too.
ImportUpdateRowReset(old, contract) ==
    [ old EXCEPT
        !.draudejas = contract.draudejas, !.pardavejas = contract.pardavejas,
        !.ldGrupe = contract.ldGrupe,
        !.galiojaNuo = contract.galiojaNuo, !.galiojaIki = contract.galiojaIki,
        !.valstybinisNr = contract.valstybinisNr,
        !.metineIsmoka = contract.metineIsmoka, !.ismoka = contract.ismoka,
        !.atnaujinimoData = contract.atnaujinimoData, !.is_archived = 0 ]

\* UPDATE contracts SET ... WHERE id = existing.id of the import: policyNo,
\* notes and is_archived are not in the SET list.
ImportUpdateRow(old, contract) ==
    [ old EXCEPT
        !.draudejas = contract.draudejas, !.pardavejas = contract.pardavejas,
        !.ldGrupe = contract.ldGrupe,
        !.galiojaNuo = contract.galiojaNuo, !.galiojaIki = contract.galiojaIki,
        !.valstybinisNr = contract.valstybinisNr,
        !.metineIsmoka = contract.metineIsmoka, !.ismoka = contract.ismoka,
        !.atnaujinimoData = contract.atnaujinimoData ]

\* The rows of the model with their policy number cell, whether building
\* `contract` throws, and `contract`.
Coerced ==
    [ item \in ImportRows |->
        [ hasPolicyNo |-> Truthy(PolicyNoOf(item)),
          throws |-> Throws(item),
          contract |-> Mapped(item) ] ]

\* RowPath without the continue: a row without a policy number goes on to
\* String(policyNo).trim() and the lookup, and is handled as a failure.
RowPathNoSkip(cs, coerced) ==
    IF ~coerced.hasPolicyNo \/ coerced.throws THEN "throw"
    ELSE IF MatchByKey(cs, coerced.contract.policyNo, coerced.contract.valstybinisNr) # {}
         THEN "update"
    ELSE "insert"

\* What the loop does with one row, given what Coerced holds for it: "skip",
\* "throw", "update" or "insert".
RowPath(cs, coerced) ==
    IF ~coerced.hasPolicyNo THEN "skip"
    ELSE IF coerced.throws THEN "throw"
    ELSE IF MatchByKey(cs, coerced.contract.policyNo, coerced.contract.valstybinisNr) # {}
         THEN "update"
    ELSE "insert"

\* The body of the try block and the catch block for a row that took `path`:
\* st holds the table, the AUTOINCREMENT counter, the results object, and the
\* path each row took so far. db.get returns the first row of the table scan,
\* the one of least rowid.
Persist(st, contract, path) ==
    LET matches == MatchByKey(st.contracts, contract.policyNo, contract.valstybinisNr)
        existing == CHOOSE i \in matches : \A j \in matches : i <= j
    IN  CASE path = "skip" ->
               [st EXCEPT !.paths = Append(@, path)]
          [] path = "throw" ->
               [st EXCEPT !.failed = @ + 1,
                          !.errors = Append(@, "trim is not a function"),
                          !.paths = Append(@, path)]
          [] path = "update" ->
               [st EXCEPT !.contracts[existing] = ImportUpdateRow(@, contract),
                          !.success = @ + 1,
                          !.paths = Append(@, path)]
          [] OTHER ->
               [st EXCEPT !.contracts = (st.nextId :> InsertRow(st.nextId, contract, <<>>,
                                                contract.atnaujinimoData)) @@ st.contracts,
                          !.nextId = @ + 1,
                          !.success = @ + 1,
                          !.paths = Append(@, path)]

\* One turn of the loop.
ImportRow(st, item) ==
    Persist(st, Coerced[item].contract, RowPath(st.contracts, Coerced[item]))

RECURSIVE ImportBatchAbort(_, _)
\* ImportBatch with the try/catch around the loop: the first throw ends it.
ImportBatchAbort(st, batch) ==
    IF batch = <<>> THEN st
    ELSE IF RowPath(st.contracts, Coerced[Head(batch)]) = "throw"
         THEN ImportRow(st, Head(batch))
    ELSE ImportBatchAbort(ImportRow(st, Head(batch)), Tail(batch))

RECURSIVE UnawaitedLoop(_, _, _)
\* The loop with every row's lookup made on the table cs the batch started
\* with.
UnawaitedLoop(cs, st, batch) ==
    IF batch = <<>> THEN st
    ELSE UnawaitedLoop(cs,
             Persist(st, Coerced[Head(batch)].contract, RowPath(cs, Coerced[Head(batch)])),
             Tail(batch))

\* ImportBatch without the awaits: the lookups of all rows run before the
\* first write.
ImportBatchUnawaited(st, batch) == UnawaitedLoop(st.contracts, st, batch)

RECURSIVE ImportBatch(_, _)
\* for (const item of contracts) { ... }: the rows one after another.
ImportBatch(st, batch) ==
    IF batch = <<>> THEN st
    ELSE ImportBatch(ImportRow(st, Head(batch)), Tail(batch))

\* The loop run on table cs with counter nid.
RunImport(cs, nid, batch) ==
    ImportBatch([contracts |-> cs, nextId |-> nid, success |-> 0, failed |-> 0,
                 errors |-> <<>>, paths |-> <<>>], batch)

\* WebhookN8n that audits a batch that stored a row.
WebhookN8nAudited(batch) ==
    /\ nreq < MaxRequests
    /\ nreq' = nreq + 1
    /\ prev' = req
    /\ req' = Request("POST /api/webhook/n8n", 0, batch)
    /\ contracts' = RunImport(contracts, nextId, batch).contracts
    /\ nextId' = RunImport(contracts, nextId, batch).nextId
    /\ res' = [Response(200, "", 0) EXCEPT
                  !.success = RunImport(contracts, nextId, batch).success,
                  !.failed = RunImport(contracts, nextId, batch).failed,
                  !.errors = RunImport(contracts, nextId, batch).errors]
    /\ history' = IF RunImport(contracts, nextId, batch).success > 0
                  THEN logHistory(history, 0, 0, "n8n", "UPDATED", "Imported")
                  ELSE history
    /\ UNCHANGED <<now, dash, audit, tasks, day, inflight>>

\* app.post('/api/webhook/n8n', ...): no middleware in front of the handler.
WebhookN8n(batch) ==
    /\ nreq < MaxRequests
    /\ nreq' = nreq + 1
    /\ prev' = req
    /\ req' = Request("POST /api/webhook/n8n", 0, batch)
    /\ LET done == RunImport(contracts, nextId, batch)
       IN  /\ contracts' = done.contracts
           /\ nextId' = done.nextId
           /\ res' = [Response(200, "", 0) EXCEPT
                         !.success = done.success, !.failed = done.failed,
                         !.errors = done.errors]
    /\ UNCHANGED <<history, now, dash, audit, tasks, day, inflight>>

-----------------------------------------------------------------------------
(* Dashboard: status classifier and tab filter.                            *)

\* The browser's time zone, Europe/Vilnius: the UTC offset in hours before
\* and after the clock change that happens in the night of day `day`
\* (2 -> 3 in spring, 3 -> 2 in autumn), or no change in the days at hand.
Zones ==
    { [before |-> 2, after |-> 2, day |-> 0] }
    \cup { [before |-> 2, after |-> 3, day |-> t] : t \in (-MaxDayDiff)..MaxDayDiff }
    \cup { [before |-> 3, after |-> 2, day |-> t] : t \in (-MaxDayDiff)..MaxDayDiff }

\* The instant of local midnight of calendar day k (what setHours(0,0,0,0)
\* leaves), in hours of UTC: the change is at 3 or 4 o'clock of day zone.day,
\* so midnights up to that day have the offset before it.
LocalMidnight(k, zone) == 24 * k - (IF k <= zone.day THEN zone.before ELSE zone.after)

\* Math.ceil(a / b) for b > 0.
Ceil(a, b) == -((-a) \div b)

\* getStatus(dateStr) on day `today`: new Date('YYYY-MM-DD') is midnight UTC of
\* that day, which east of Greenwich is the same local day. The times are in
\* hours, so the day is 24 where the code has 1000 * 60 * 60 * 24.
getStatus(expiry, today, zone) ==
    LET diffTime == LocalMidnight(expiry, zone) - LocalMidnight(today, zone)
        diffDays == Ceil(diffTime, 24)
    IN  IF diffDays < 0 THEN "expired"
        ELSE IF diffDays <= 30 THEN "warning"
        ELSE "valid"

Tabs == {"active", "ended", "archived"}

\* viewMatches whose active tab does not look at the archived flag.
viewMatchesLeak(activeTab, c, status) ==
    LET archived == (c.is_archived = "true")
    IN  CASE activeTab = "active" -> status # "expired"
          [] activeTab = "ended" -> ~archived /\ status = "expired"
          [] activeTab = "archived" -> archived
          [] OTHER -> TRUE

\* viewMatches of filteredContracts; is_archived is optional in the Contract
\* type: "undef" is the missing field, which !c.is_archived takes as false.
viewMatches(activeTab, c, status) ==
    LET archived == (c.is_archived = "true")
    IN  CASE activeTab = "active" -> ~archived /\ status # "expired"
          [] activeTab = "ended" -> ~archived /\ status = "expired"
          [] activeTab = "archived" -> archived
          [] OTHER -> TRUE

DashContracts ==
    [ is_archived : {"true", "false", "undef"},
      galiojaIki : (-MaxDayDiff)..MaxDayDiff ]

\* setActiveTab(tab)
SetActiveTab(tab) ==
    /\ tab # dash.activeTab
    /\ dash' = [dash EXCEPT !.activeTab = tab]
    /\ UNCHANGED <<contracts, nextId, history, now, nreq, prev, req, res, audit,
                   tasks, day, inflight>>

\* The contract the filter is applied to.
ShowContract(c) ==
    /\ c # dash.c
    /\ dash' = [dash EXCEPT !.c = c]
    /\ UNCHANGED <<contracts, nextId, history, now, nreq, prev, req, res, audit,
                   tasks, day, inflight>>

\* The calendar day of new Date(dateStr) for the valid-until dates of the
\* request bodies, counted from the day Today.
DayNumber(dateStr) ==
    CASE dateStr = "2027-01-01" -> 58
      [] dateStr = "2027-02-01" -> 89
      [] OTHER -> 0

\* The days the browser's clock shows when the dashboard is opened: the day
\* Today, and a day after the first valid-until date and within 30 days of
\* the second.
DashDays == {0, 60}

\* GET /api/contracts as the dashboard receives it: the rows with
\* is_archived = 0, is_archived turned into a boolean; no rows when the
\* response is not ok.
LoadedContracts(sess) ==
    IF ~isAuthenticated(sess) THEN <<>>
    ELSE [ i \in ListActive |->
             [ is_archived |-> IF contracts[i].is_archived # 0 THEN "true" ELSE "false",
               galiojaIki |-> DayNumber(contracts[i].galiojaIki) ] ]

\* fetchContracts: setContracts(data) with the response of GET /api/contracts.
FetchContracts(sess) ==
    /\ dash' = [dash EXCEPT !.contracts = LoadedContracts(sess)]
    /\ UNCHANGED <<contracts, nextId, history, now, nreq, prev, req, res, audit,
                   tasks, day, inflight>>

\* filteredContracts with the given tab active and no search term and no
\* filter set: the ids of the loaded contracts that viewMatches lets through.
Visible(tab) ==
    { i \in DOMAIN dash.contracts :
        viewMatches(tab, dash.contracts[i],
                    getStatus(dash.contracts[i].galiojaIki, dash.today, dash.zone)) }

-----------------------------------------------------------------------------
(* Task routes. The columns title, description, created_by, due_date,      *)
(* created_at and comments are written by these routes and read by none of *)
(* their WHERE clauses; the model keeps status, completed_at, assigned_to. *)

\* completed_at: SQL NULL, or the day of new Date().toISOString().
NoTime == <<>>

At(d) == <<d>>

TaskStatuses == {"pending", "completed"}

\* The usernames a task is assigned to.
Assignees == {"sale", "view"}

TaskIds == 1..MaxTasks

\* The response of a task route: the route, the status, the ids of the rows
\* of GET /api/tasks.
TaskResponse(route, status, listed) ==
    [ route |-> route, status |-> status, listed |-> listed ]

NoTasks == [ rows |-> <<>>, seq |-> 0, res |-> TaskResponse("", 0, {}) ]

\* The retention window of completed tasks, in days.
RetentionDays == 7

\* sevenDaysAgo.setDate(sevenDaysAgo.getDate() - 7): the calendar date moves
\* back seven days and the time of day stays.
cleanupDate(d) == d - RetentionDays

\* PurgeTasks that also takes the tasks completed at the cleanup date.
PurgeTasksInclusive(rows, cutoff) ==
    [ i \in { j \in DOMAIN rows :
                ~( /\ rows[j].status = "completed"
                   /\ rows[j].completed_at # NoTime
                   /\ rows[j].completed_at[1] <= cutoff ) } |-> rows[i] ]

\* DELETE FROM tasks WHERE status = 'completed' AND completed_at < ?
\* (a NULL completed_at is less than nothing).
PurgeTasks(rows, cutoff) ==
    [ i \in { j \in DOMAIN rows :
                ~( /\ rows[j].status = "completed"
                   /\ rows[j].completed_at # NoTime
                   /\ rows[j].completed_at[1] < cutoff ) } |-> rows[i] ]

\* SELECT * FROM tasks [WHERE assigned_to = ?]: every row for the
\* administrator, the rows assigned to the caller for the others.
SelectTasks(rows, sess) ==
    { i \in DOMAIN rows : sess.role = "admin" \/ rows[i].assigned_to = sess.username }

\* A task route that ends in its middleware.
RejectTask(route, status) ==
    tasks' = [tasks EXCEPT !.res = TaskResponse(route, status, {})]

\* app.get('/api/tasks', isAuthenticated, ...)
GetTasks(sess) ==
    /\ UNCHANGED <<contracts, nextId, history, now, nreq, prev, req, res, dash, audit,
                   day, inflight>>
    /\ IF ~isAuthenticated(sess)
       THEN RejectTask("GET /api/tasks", 401)
       ELSE LET remaining == PurgeTasks(tasks.rows, cleanupDate(day))
            IN  tasks' = [tasks EXCEPT
                            !.rows = remaining,
                            !.res = TaskResponse("GET /api/tasks", 200,
                                                 SelectTasks(remaining, sess))]

\* app.post('/api/tasks', isAuthenticated, hasRole(['admin']), ...)
PostTask(sess, assigned_to) ==
    /\ tasks.seq < MaxTasks
    /\ UNCHANGED <<contracts, nextId, history, now, nreq, prev, req, res, dash, audit,
                   day, inflight>>
    /\ IF ~isAuthenticated(sess)
       THEN RejectTask("POST /api/tasks", 401)
       ELSE IF ~hasRole({"admin"}, sess)
       THEN RejectTask("POST /api/tasks", 403)
       ELSE tasks' = [ rows |-> (tasks.seq + 1 :>
                                    [ status |-> "pending", completed_at |-> NoTime,
                                      assigned_to |-> assigned_to ]) @@ tasks.rows,
                       seq |-> tasks.seq + 1,
                       res |-> TaskResponse("POST /api/tasks", 200, {}) ]

\* app.put('/api/tasks/:id', isAuthenticated, hasRole(['admin']), ...)
PutTask(sess, id, assigned_to) ==
    /\ UNCHANGED <<contracts, nextId, history, now, nreq, prev, req, res, dash, audit,
                   day, inflight>>
    /\ IF ~isAuthenticated(sess)
       THEN RejectTask("PUT /api/tasks/:id", 401)
       ELSE IF ~hasRole({"admin"}, sess)
       THEN RejectTask("PUT /api/tasks/:id", 403)
       ELSE tasks' = [tasks EXCEPT
                        !.rows = [ i \in DOMAIN tasks.rows |->
                                     IF i = id
                                     THEN [tasks.rows[i] EXCEPT !.assigned_to = assigned_to]
                                     ELSE tasks.rows[i] ],
                        !.res = TaskResponse("PUT /api/tasks/:id", 200, {})]

\* app.patch('/api/tasks/:id/status', isAuthenticated, ...)
PatchTaskStatus(sess, id, status) ==
    /\ UNCHANGED <<contracts, nextId, history, now, nreq, prev, req, res, dash, audit,
                   day, inflight>>
    /\ IF ~isAuthenticated(sess)
       THEN RejectTask("PATCH /api/tasks/:id/status", 401)
       ELSE LET completedAt == IF status = "completed" THEN At(day) ELSE NoTime
            IN  tasks' = [tasks EXCEPT
                            !.rows = [ i \in DOMAIN tasks.rows |->
                                         IF i = id
                                         THEN [tasks.rows[i] EXCEPT
                                                 !.status = status,
                                                 !.completed_at = completedAt]
                                         ELSE tasks.rows[i] ],
                            !.res = TaskResponse("PATCH /api/tasks/:id/status", 200, {})]

\* app.delete('/api/tasks/:id', isAuthenticated, hasRole(['admin']), ...)
DeleteTask(sess, id) ==
    /\ UNCHANGED <<contracts, nextId, history, now, nreq, prev, req, res, dash, audit,
                   day, inflight>>
    /\ IF ~isAuthenticated(sess)
       THEN RejectTask("DELETE /api/tasks/:id", 401)
       ELSE IF ~hasRole({"admin"}, sess)
       THEN RejectTask("DELETE /api/tasks/:id", 403)
       ELSE tasks' = [tasks EXCEPT
                        !.rows = [ i \in (DOMAIN tasks.rows) \ {id} |-> tasks.rows[i] ],
                        !.res = TaskResponse("DELETE /api/tasks/:id", 200, {})]

\* A day passes.
DayTick ==
    /\ day < MaxDay
    /\ day' = day + 1
    /\ UNCHANGED <<contracts, nextId, history, now, nreq, prev, req, res, dash, audit,
                   tasks, inflight>>

-----------------------------------------------------------------------------
(* The lifecycle routes callback by callback. A route issues a statement   *)
(* and returns; the statement runs on the database thread and its callback *)
(* runs later, so the statements of other requests run in between. One     *)
(* step is one statement together with the callback that receives its      *)
(* result.                                                                 *)

Slots == 1..MaxInflight

\* The sessions and bodies of the requests that overlap: a create, and
\* updates and no-op updates of contract 1 with three values of one field.
OverlapSessions == { sess \in Sessions : sess.role \in {"admin", "viewer"} }

OverlapBodies ==
    { BasePayload,
      [BasePayload EXCEPT !.id = 1],
      [BasePayload EXCEPT !.id = 1, !.draudejas = "Petras"],
      [BasePayload EXCEPT !.id = 1, !.draudejas = "Ona"] }

NoParams ==
    [ contract_id |-> 0, user_id |-> 0, username |-> "", timestamp |-> 0,
      action |-> "", details |-> "" ]

\* logHistory up to its db.run: the parameters bound to INSERT INTO history,
\* the timestamp taken from the clock at the call.
HistoryParams(contractId, userId, username, action, details) ==
    [ contract_id |-> contractId, user_id |-> userId, username |-> username,
      timestamp |-> now, action |-> action, details |-> details ]

\* The INSERT INTO history of logHistory when it runs.
InsertHistory(h, e) ==
    IF audit = "fail" THEN h
    ELSE Append(h, [ id |-> Len(h) + 1, contract_id |-> e.contract_id,
                     user_id |-> e.user_id, username |-> e.username,
                     timestamp |-> e.timestamp, action |-> e.action,
                     details |-> e.details ])

\* The closure of a request between its callbacks: the statement that is
\* pending (pc), and the locals the later callbacks read.
Pending(route, sess, c, id, pc) ==
    [ route |-> route, sess |-> sess, c |-> c, id |-> id, pc |-> pc,
      changes |-> <<>>, updated |-> "", newStatus |-> 0, log |-> NoParams ]

\* The request of slot p sends its response and has nothing pending.
Respond(p, response) ==
    /\ prev' = req
    /\ req' = Request(inflight[p].route, inflight[p].id, <<>>)
    /\ res' = response
    /\ inflight' = [ q \in (DOMAIN inflight) \ {p} |-> inflight[q] ]

\* The request of slot p sends its response; the INSERT of its logHistory
\* call is pending.
RespondAndLog(p, response, params) ==
    /\ prev' = req
    /\ req' = Request(inflight[p].route, inflight[p].id, <<>>)
    /\ res' = response
    /\ inflight' = [inflight EXCEPT ![p].pc = "log", ![p].log = params]

\* A request that ends in its middleware or its validation.
RespondAtOnce(route, id, status, message) ==
    /\ prev' = req
    /\ req' = Request(route, id, <<>>)
    /\ res' = Response(status, message, 0)
    /\ UNCHANGED inflight

\* POST /api/contracts arrives: the middleware, the validation, and the
\* SELECT that either branch issues.
BeginPost(p, sess, c) ==
    /\ nreq < MaxRequests
    /\ p \notin DOMAIN inflight
    /\ nreq' = nreq + 1
    /\ UNCHANGED <<contracts, nextId, history, now, dash, audit, tasks, day>>
    /\ IF ~isAuthenticated(sess)
       THEN RespondAtOnce("POST /api/contracts", c.id, 401, "Unauthorized")
       ELSE IF ~hasRole({"admin", "sales"}, sess)
       THEN RespondAtOnce("POST /api/contracts", c.id, 403,
                          "Forbidden: Insufficient permissions")
       ELSE IF Falsy(c.draudejas) \/ Falsy(c.policyNo) \/ Falsy(c.galiojaIki)
       THEN RespondAtOnce("POST /api/contracts", c.id, 400, "Missing required fields")
       ELSE /\ inflight' = (p :> Pending("POST /api/contracts", sess, c, c.id, "get"))
                              @@ inflight
            /\ UNCHANGED <<prev, req, res>>

\* POST /api/contracts/:id/archive arrives and issues its SELECT.
BeginArchive(p, sess, id) ==
    /\ nreq < MaxRequests
    /\ p \notin DOMAIN inflight
    /\ nreq' = nreq + 1
    /\ UNCHANGED <<contracts, nextId, history, now, dash, audit, tasks, day>>
    /\ IF ~isAuthenticated(sess)
       THEN RespondAtOnce("POST /api/contracts/:id/archive", id, 401, "Unauthorized")
       ELSE IF ~hasRole({"admin", "sales"}, sess)
       THEN RespondAtOnce("POST /api/contracts/:id/archive", id, 403,
                          "Forbidden: Insufficient permissions")
       ELSE /\ inflight' = (p :> Pending("POST /api/contracts/:id/archive", sess,
                                         BasePayload, id, "get")) @@ inflight
            /\ UNCHANGED <<prev, req, res>>

\* DELETE /api/contracts/:id arrives and issues its DELETE.
BeginDelete(p, sess, id) ==
    /\ nreq < MaxRequests
    /\ p \notin DOMAIN inflight
    /\ nreq' = nreq + 1
    /\ UNCHANGED <<contracts, nextId, history, now, dash, audit, tasks, day>>
    /\ IF ~isAuthenticated(sess)
       THEN RespondAtOnce("DELETE /api/contracts/:id", id, 401, "Unauthorized")
       ELSE IF ~hasRole({"admin"}, sess)
       THEN RespondAtOnce("DELETE /api/contracts/:id", id, 403,
                          "Forbidden: Insufficient permissions")
       ELSE /\ inflight' = (p :> Pending("DELETE /api/contracts/:id", sess,
                                         BasePayload, id, "run")) @@ inflight
            /\ UNCHANGED <<prev, req, res>>

\* db.get of the update branch runs and its callback computes the diff and
\* issues the UPDATE.
GetForUpdate(p) ==
    LET c == inflight[p].c
    IN  IF c.id \notin Ids
        THEN Respond(p, Response(404, "Contract not found", 0))
        ELSE /\ inflight' = [inflight EXCEPT
                               ![p].pc = "run",
                               ![p].changes = Changes(contracts[c.id], c),
                               ![p].updated = Iso(now)]
             /\ UNCHANGED <<prev, req, res>>

\* db.get of the create branch runs and its callback either rejects the
\* duplicate or issues the INSERT.
GetForCreate(p) ==
    LET c == inflight[p].c
    IN  IF MatchByKey(contracts, c.policyNo, c.valstybinisNr) # {}
        THEN Respond(p, Response(409,
                 "Sutartis su tokiu poliso numeriu ir objektu jau egzistuoja.", 0))
        ELSE /\ inflight' = [inflight EXCEPT ![p].pc = "run", ![p].updated = Iso(now)]
             /\ UNCHANGED <<prev, req, res>>

\* db.get of the archive route runs and its callback issues the UPDATE.
GetForArchive(p) ==
    LET id == inflight[p].id
    IN  IF id \notin Ids
        THEN Respond(p, Response(404, "Contract not found", 0))
        ELSE /\ inflight' = [inflight EXCEPT
                               ![p].pc = "run",
                               ![p].newStatus = NewStatus(contracts[id]),
                               ![p].updated = Iso(now)]
             /\ UNCHANGED <<prev, req, res>>

\* The db.get of the request in slot p and its callback.
GetCallback(p) ==
    /\ p \in DOMAIN inflight
    /\ inflight[p].pc = "get"
    /\ UNCHANGED <<contracts, nextId, history, now, nreq, dash, audit, tasks, day>>
    /\ IF inflight[p].route = "POST /api/contracts/:id/archive" THEN GetForArchive(p)
       ELSE IF inflight[p].c.id # 0 THEN GetForUpdate(p)
       ELSE GetForCreate(p)

\* UPDATE contracts SET ... WHERE id = ? of the update branch runs (on no row
\* when the id names none by now) and its callback logs and responds.
RunUpdate(p) ==
    LET f == inflight[p]
    IN  /\ contracts' = IF f.c.id \in Ids
                        THEN [contracts EXCEPT
                                ![f.c.id] = UpdateRow(contracts[f.c.id], f.c, f.updated)]
                        ELSE contracts
        /\ UNCHANGED nextId
        /\ IF Len(f.changes) > 0
           THEN RespondAndLog(p, Response(200, "Updated", f.c.id),
                    HistoryParams(f.c.id, f.sess.userId, f.sess.username,
                                  "UPDATED", Join(f.changes)))
           ELSE Respond(p, Response(200, "Updated", f.c.id))

\* INSERT INTO contracts of the create branch runs and its callback logs
\* this.lastID and responds.
RunCreate(p) ==
    LET f == inflight[p]
    IN  /\ contracts' = (nextId :> InsertRow(nextId, f.c, f.c.notes, f.updated))
                            @@ contracts
        /\ nextId' = nextId + 1
        /\ RespondAndLog(p, Response(200, "Created", nextId),
               HistoryParams(nextId, f.sess.userId, f.sess.username,
                             "CREATED", "Contract created"))

\* UPDATE contracts SET is_archived = ?, atnaujinimoData = ? WHERE id = ?
\* runs and its callback logs and responds.
RunArchive(p) ==
    LET f == inflight[p]
        action == ArchiveAction(f.newStatus)
    IN  /\ contracts' = IF f.id \in Ids
                        THEN [contracts EXCEPT ![f.id].is_archived = f.newStatus,
                                               ![f.id].atnaujinimoData = f.updated]
                        ELSE contracts
        /\ UNCHANGED nextId
        /\ RespondAndLog(p, [Response(200, action, 0)
                                EXCEPT !.is_archived = (f.newStatus # 0)],
               HistoryParams(f.id, f.sess.userId, f.sess.username,
                             action, "Contract " \o toLowerCase(action)))

\* DELETE FROM contracts WHERE id = ? runs and its callback logs and responds.
RunDelete(p) ==
    LET f == inflight[p]
    IN  /\ contracts' = DeleteRow(contracts, f.id)
        /\ UNCHANGED nextId
        /\ RespondAndLog(p, Response(200, "Deleted", 0),
               HistoryParams(f.id, f.sess.userId, f.sess.username,
                             "DELETED", "Contract permanently deleted"))

\* The db.run of the request in slot p and its callback.
RunCallback(p) ==
    /\ p \in DOMAIN inflight
    /\ inflight[p].pc = "run"
    /\ UNCHANGED <<history, now, nreq, dash, audit, tasks, day>>
    /\ IF inflight[p].route = "POST /api/contracts/:id/archive" THEN RunArchive(p)
       ELSE IF inflight[p].route = "DELETE /api/contracts/:id" THEN RunDelete(p)
       ELSE IF inflight[p].c.id # 0 THEN RunUpdate(p)
       ELSE RunCreate(p)

\* The INSERT INTO history issued by the logHistory call of slot p runs.
LogCallback(p) ==
    /\ p \in DOMAIN inflight
    /\ inflight[p].pc = "log"
    /\ history' = InsertHistory(history, inflight[p].log)
    /\ inflight' = [ q \in (DOMAIN inflight) \ {p} |-> inflight[q] ]
    /\ UNCHANGED <<contracts, nextId, now, nreq, prev, req, res, dash, audit, tasks, day>>

-----------------------------------------------------------------------------
(* Specifications.                                                         *)

InitServer ==
    /\ contracts = <<>>
    /\ nextId = 1
    /\ history = <<>>
    /\ now = 0
    /\ nreq = 0
    /\ prev = NoRequest
    /\ req = NoRequest
    /\ res = NoResponse
    /\ audit = "ok"
    /\ tasks = NoTasks
    /\ day = 0
    /\ inflight = <<>>

InitDashboard ==
    [ today |-> 0, zone |-> [before |-> 2, after |-> 2, day |-> 0],
      activeTab |-> "active", c |-> [is_archived |-> "false", galiojaIki |-> 0],
      contracts |-> <<>> ]

Init == InitServer /\ dash = InitDashboard

Next ==
    \/ \E in \in PostInputs : PostContract(in[1], in[2])
    \/ \E in \in IdInputs : PostArchive(in[1], in[2])
    \/ \E in \in IdInputs : DeleteContract(in[1], in[2])
    \/ \E batch \in Batches : WebhookN8n(batch)
    \/ Tick

Spec == Init /\ [][Next]_vars

InitDash ==
    /\ InitServer
    /\ \E zone \in Zones : dash = [InitDashboard EXCEPT !.zone = zone]

NextDash ==
    \/ \E tab \in Tabs : SetActiveTab(tab)
    \/ \E c \in DashContracts : ShowContract(c)

SpecDash == InitDash /\ [][NextDash]_vars

\* The lifecycle routes with history inserts that may fail.
NextAudit ==
    \/ \E in \in PostInputs : PostContract(in[1], in[2])
    \/ \E in \in IdInputs : PostArchive(in[1], in[2])
    \/ \E in \in IdInputs : DeleteContract(in[1], in[2])
    \/ Tick
    \/ AuditFault

SpecAudit == Init /\ [][NextAudit]_vars

\* The task routes and the passing of days.
NextTasks ==
    \/ \E sess \in Sessions : GetTasks(sess)
    \/ \E sess \in Sessions, a \in Assignees : PostTask(sess, a)
    \/ \E sess \in Sessions, id \in TaskIds, a \in Assignees : PutTask(sess, id, a)
    \/ \E sess \in Sessions, id \in TaskIds, st \in TaskStatuses :
          PatchTaskStatus(sess, id, st)
    \/ \E sess \in Sessions, id \in TaskIds : DeleteTask(sess, id)
    \/ DayTick

SpecTasks == Init /\ [][NextTasks]_vars

\* The dashboard opened on some day, loading the contracts that the create,
\* update and archive routes store.
InitView ==
    /\ InitServer
    /\ \E today \in DashDays : dash = [InitDashboard EXCEPT !.today = today]

NextView ==
    \/ \E in \in PostInputs : PostContract(in[1], in[2])
    \/ \E in \in IdInputs : PostArchive(in[1], in[2])
    \/ \E sess \in Sessions : FetchContracts(sess)

SpecView == InitView /\ [][NextView]_vars

\* The lifecycle routes with overlapping requests.
NextOverlap ==
    \/ \E p \in Slots, sess \in OverlapSessions, c \in OverlapBodies : BeginPost(p, sess, c)
    \/ \E p \in Slots, sess \in OverlapSessions : BeginArchive(p, sess, 1)
    \/ \E p \in Slots, sess \in OverlapSessions : BeginDelete(p, sess, 1)
    \/ \E p \in Slots : GetCallback(p)
    \/ \E p \in Slots : RunCallback(p)
    \/ \E p \in Slots : LogCallback(p)
    \/ Tick

SpecOverlap == Init /\ [][NextOverlap]_vars

-----------------------------------------------------------------------------
(* Properties.                                                             *)

\* The step handles a request (every route counts it; Tick does not).
RequestStep == nreq' = nreq + 1

\* The step handles a request to POST /api/contracts.
PostStep == RequestStep /\ req'.route = "POST /api/contracts"

\* The session passes isAuthenticated and hasRole(['admin', 'sales']).
MayWrite(sess) == isAuthenticated(sess) /\ hasRole({"admin", "sales"}, sess)

\* The body has the three required fields.
HasRequired(c) == ~Falsy(c.draudejas) /\ ~Falsy(c.policyNo) /\ ~Falsy(c.galiojaIki)

\* The stored rows that have the pair (policyNo, valstybinisNr), two absent
\* registration numbers counting as the same.
RowsWithPair(cs, policyNo, valstybinisNr) ==
    { i \in DOMAIN cs : cs[i].policyNo = policyNo /\ cs[i].valstybinisNr = valstybinisNr }

\* The history rows of contract id with the given action.
EntriesOf(h, id, action) ==
    { n \in 1..Len(h) : h[n].contract_id = id /\ h[n].action = action }

\* C1: in every reachable state no two stored contract rows share the same
\* (policyNo, valstybinisNr) pair.
C1_UniqueBusinessKey ==
    \A i \in Ids, j \in Ids :
        i # j => ~( contracts[i].policyNo = contracts[j].policyNo
                    /\ contracts[i].valstybinisNr = contracts[j].valstybinisNr )

\* C2: a create whose (policyNo, valstybinisNr) pair a stored row already has
\* is answered 409, inserts no row and writes no history entry, so after a
\* successful create a second create with the same pair leaves one row with
\* the pair and one CREATED entry for it.
C2_DuplicateCreateRejected ==
    [][ PostStep => \A in \in PostInputs :
          ( /\ req'.id = 0
            /\ MayWrite(in[1]) /\ HasRequired(in[2]) /\ in[2].id = 0
            /\ RowsWithPair(contracts, in[2].policyNo, in[2].valstybinisNr) # {}
            /\ PostContract(in[1], in[2]) )
          => ( /\ res'.status = 409
               /\ contracts' = contracts
               /\ history' = history
               /\ ( (req.route = "POST /api/contracts" /\ res.message = "Created"
                     /\ contracts[res.id].policyNo = in[2].policyNo
                     /\ contracts[res.id].valstybinisNr = in[2].valstybinisNr)
                    => ( /\ RowsWithPair(contracts', in[2].policyNo, in[2].valstybinisNr)
                              = {res.id}
                         /\ Cardinality(EntriesOf(history', res.id, "CREATED")) = 1 ) ) )
      ]_vars

\* The step is a successful archive toggle of contract id.
ToggleStep(id) ==
    /\ RequestStep
    /\ req'.route = "POST /api/contracts/:id/archive"
    /\ req'.id = id
    /\ res'.status = 200

\* C3: an archive toggle flips is_archived and appends one history entry for
\* the contract, ARCHIVED when the new flag is set and RESTORED when it is
\* cleared; so the second of two sequential toggles returns is_archived to its
\* value before the first, the two entries are the last two of the history,
\* and for a non-archived contract they are ARCHIVED then RESTORED.
C3_ArchiveRoundTrip ==
    [][ \A id \in RequestIds \ {0} :
          ToggleStep(id) =>
            LET n == Len(history)
                before == contracts[id].is_archived
            IN  /\ id \in Ids /\ id \in Ids'
                /\ contracts'[id].is_archived = 1 - before
                /\ res'.is_archived = (contracts'[id].is_archived = 1)
                /\ Len(history') = n + 1
                /\ SubSeq(history', 1, n) = history
                /\ history'[n + 1].contract_id = id
                /\ history'[n + 1].action = (IF before = 0 THEN "ARCHIVED" ELSE "RESTORED")
                /\ ( (req.route = "POST /api/contracts/:id/archive" /\ req.id = id
                      /\ res.status = 200)
                     => ( /\ res.is_archived = (before = 1)
                          /\ history[n].contract_id = id
                          /\ <<history[n].action, history'[n + 1].action>>
                               = (IF contracts'[id].is_archived = 0
                                  THEN <<"ARCHIVED", "RESTORED">>
                                  ELSE <<"RESTORED", "ARCHIVED">>) ) )
      ]_vars

\* Two sequential toggles of a freshly created contract have been handled.
C3_Witness ==
    /\ nreq = 3
    /\ prev.route = "POST /api/contracts/:id/archive"
    /\ req.route = "POST /api/contracts/:id/archive"
    /\ prev.id = req.id
    /\ res.status = 200 /\ res.message = "RESTORED"
    /\ req.id \in Ids /\ contracts[req.id].is_archived = 0
    /\ Len(history) = 3
    /\ [ n \in 1..3 |-> history[n].action ] = <<"CREATED", "ARCHIVED", "RESTORED">>
    /\ \A n \in 1..3 : history[n].contract_id = req.id

\* The step, one of POST /api/contracts, is an update, by a session that may
\* write, of the stored contract c.id with the body c.
UpdateStep(sess, c) ==
    /\ req'.id = c.id
    /\ MayWrite(sess) /\ HasRequired(c)
    /\ c.id \in Ids
    /\ PostContract(sess, c)

\* The compared fields in which the body differs from the stored row.
ChangedKeys(old, c) == { k \in BusinessKeys : c[k] # old[k] }

\* C4: an update whose body equals the stored row in the nine business
\* fields and the notes appends no history entry.
C4_NoOpUpdateNotAudited ==
    [][ PostStep => \A in \in PostInputs :
          ( /\ UpdateStep(in[1], in[2])
            /\ ChangedKeys(contracts[in[2].id], in[2]) = {}
            /\ in[2].notes = contracts[in[2].id].notes )
          => ( history' = history /\ res'.status = 200 /\ res'.message = "Updated" )
      ]_vars

\* An update has been answered and the history holds no UPDATED entry.
C4_Witness ==
    /\ req.route = "POST /api/contracts"
    /\ res.status = 200 /\ res.message = "Updated"
    /\ EntriesOf(history, res.id, "UPDATED") = {}
    /\ EntriesOf(history, res.id, "CREATED") # {}

\* The label the diff gives field k.
LabelOf(k) == (CHOOSE i \in 1..Len(fieldsToCheck) : fieldsToCheck[i].key = k)

\* C5: an update that changes exactly one of the nine compared fields and
\* leaves the notes equal yields a diff of exactly one line, which names that
\* field and carries its old stored value and its new value; the UPDATED entry
\* appended has that line as its details.
C5_SingleFieldDiff ==
    [][ PostStep => \A in \in PostInputs :
          ( /\ UpdateStep(in[1], in[2])
            /\ Cardinality(ChangedKeys(contracts[in[2].id], in[2])) = 1
            /\ in[2].notes = contracts[in[2].id].notes )
          => LET old == contracts[in[2].id]
                 k == CHOOSE key \in ChangedKeys(old, in[2]) : TRUE
                 line == fieldsToCheck[LabelOf(k)].label \o ": " \o StrOf(k, old[k])
                            \o " -> " \o StrOf(k, in[2][k])
             IN  /\ Changes(old, in[2]) = << line >>
                 /\ Len(history') = Len(history) + 1
                 /\ history'[Len(history')].action = "UPDATED"
                 /\ history'[Len(history')].contract_id = in[2].id
                 /\ history'[Len(history')].details = line
      ]_vars

\* The yearly price alone went from 100 to 150.
C5_Witness ==
    /\ req.route = "POST /api/contracts"
    /\ res.message = "Updated"
    /\ Len(history) > 0
    /\ history[Len(history)].action = "UPDATED"
    /\ history[Len(history)].details = "Yearly Price: 100 -> 150"

\* The ids that were assigned to a row that is no longer stored: the counter
\* of an AUTOINCREMENT column passed them and only DELETE removes a row.
DeletedIds == (1..(nextId - 1)) \ Ids

\* The last entry of the history read of id is a DELETED entry, and no entry
\* of the id has a later timestamp.
TrailingDeleted(h, id) ==
    LET entries == SelectSeq(h, LAMBDA e : e.contract_id = id)
    IN  /\ entries # <<>>
        /\ entries[Len(entries)].action = "DELETED"
        /\ \A n \in 1..Len(entries) :
              entries[n].timestamp <= entries[Len(entries)].timestamp

\* p is an initial segment of q.
IsPrefix(p, q) == Len(p) <= Len(q) /\ SubSeq(q, 1, Len(p)) = p

\* C6: a successful delete of a stored contract removes its row; a deleted
\* contract is in neither list in any later state; every history entry of its
\* id is kept by every later step; and the most recent entry of its id is a
\* DELETED entry.
C6_DeleteKeepsHistory ==
    [][ /\ \A id \in Ids :
             (RequestStep /\ req'.route = "DELETE /api/contracts/:id" /\ req'.id = id
              /\ res'.status = 200)
             => ( /\ id \notin Ids'
                  /\ Len(HistoryOf(id)') = Len(HistoryOf(id)) + 1 )
        /\ \A id \in DeletedIds :
             /\ id \notin Ids' /\ id \notin ListActive' /\ id \notin ListArchived'
        /\ \A id \in DeletedIds' :
             /\ IsPrefix(HistoryOf(id), HistoryOf(id)')
             /\ TrailingDeleted(history', id)
      ]_vars

\* A contract with a CREATED entry was deleted and another request came after.
C6_Witness ==
    \E id \in DeletedIds :
        /\ EntriesOf(history, id, "CREATED") # {}
        /\ TrailingDeleted(history, id)
        /\ prev.route = "DELETE /api/contracts/:id" /\ prev.id = id
        /\ req.route # "DELETE /api/contracts/:id"
        /\ nreq = 3

\* The step is an import of the batch that the request before it imported.
SecondImportStep ==
    /\ RequestStep
    /\ req.route = "POST /api/webhook/n8n"
    /\ req'.route = "POST /api/webhook/n8n"
    /\ req'.batch = req.batch

\* The rows of a batch that have a policy number.
WithPolicyNo(batch) == { n \in 1..Len(batch) : Coerced[batch[n]].hasPolicyNo }

\* C7 as claimed: the second import of a batch leaves the number of rows as
\* it was, and every row with a policy number takes the update path.
C7_ReimportUpdatesEveryRow ==
    [][ SecondImportStep =>
          LET paths == RunImport(contracts, nextId, req'.batch).paths
          IN  /\ Cardinality(Ids') = Cardinality(Ids)
              /\ \A n \in WithPolicyNo(req'.batch) : paths[n] = "update"
      ]_vars

\* C7 as amended: the second import of a batch leaves the number of rows as it
\* was, no row takes the insert path, and every row with a policy number whose
\* processing does not throw takes the update path.
C7_ReimportIdempotent ==
    [][ SecondImportStep =>
          LET paths == RunImport(contracts, nextId, req'.batch).paths
          IN  /\ Cardinality(Ids') = Cardinality(Ids)
              /\ Ids' = Ids /\ nextId' = nextId
              /\ \A n \in 1..Len(req'.batch) : paths[n] # "insert"
              /\ \A n \in WithPolicyNo(req'.batch) :
                    ~Coerced[req'.batch[n]].throws => paths[n] = "update"
              /\ res'.success = res.success /\ res'.failed = res.failed
      ]_vars

\* A batch that inserted a row was imported a second time.
C7_Witness ==
    /\ nreq = 2
    /\ prev.route = "POST /api/webhook/n8n"
    /\ req = prev
    /\ res.success > 0
    /\ Cardinality(Ids) > 0

\* The rows of a batch that the loop persists: a policy number, no throw.
Persisted(batch) == { n \in WithPolicyNo(batch) : ~Coerced[batch[n]].throws }

\* The rows of a batch whose processing throws.
Thrown(batch) == { n \in WithPolicyNo(batch) : Coerced[batch[n]].throws }

\* C8: in an import, whatever rows throw, every other row with a policy number
\* is stored under its trimmed key, the last such row of a key giving the
\* stored client name (Coerced holds the key and the values the code builds
\* from a row), successCount is the number of rows persisted,
\* failedCount the number of rows that threw, and errors has one message for
\* each of these.
C8_FailedRowIsolated ==
    [][ (RequestStep /\ req'.route = "POST /api/webhook/n8n") =>
          LET batch == req'.batch
              key(n) == << Coerced[batch[n]].contract.policyNo,
                           Coerced[batch[n]].contract.valstybinisNr >>
          IN  /\ res'.success = Cardinality(Persisted(batch))
              /\ res'.failed = Cardinality(Thrown(batch))
              /\ Len(res'.errors) = Cardinality(Thrown(batch))
              /\ \A n \in Persisted(batch) :
                    \E i \in Ids' :
                        /\ <<contracts'[i].policyNo, contracts'[i].valstybinisNr>> = key(n)
                        /\ (\A m \in Persisted(batch) : (m > n => key(m) # key(n)))
                             => contracts'[i].draudejas = Coerced[batch[n]].contract.draudejas
      ]_vars

\* A batch whose first row threw and whose second row was stored.
C8_Witness ==
    /\ req.route = "POST /api/webhook/n8n"
    /\ Len(req.batch) = 2
    /\ Coerced[req.batch[1]].throws /\ ~Coerced[req.batch[2]].throws
    /\ res.success = 1 /\ res.failed = 1 /\ Len(res.errors) = 1
    /\ \E i \in Ids : contracts[i].policyNo = "POL-2" /\ contracts[i].valstybinisNr = ""

\* The status of the dashboard's contract.
DashStatus == getStatus(dash.c.galiojaIki, dash.today, dash.zone)

\* C9: for every archived flag and expiry status exactly one of the three tab
\* predicates holds: active iff not archived and not EXPIRED, ended iff not
\* archived and EXPIRED, archived iff archived.
C9_TabsPartition ==
    LET archived == (dash.c.is_archived = "true")
        shown(tab) == viewMatches(tab, dash.c, DashStatus)
    IN  /\ Cardinality({ tab \in Tabs : shown(tab) }) = 1
        /\ shown("active") <=> (~archived /\ DashStatus # "expired")
        /\ shown("ended") <=> (~archived /\ DashStatus = "expired")
        /\ shown("archived") <=> archived

\* An archived contract that has not expired, on the archived tab.
C9_Witness ==
    /\ dash.c.is_archived = "true"
    /\ DashStatus = "valid"
    /\ dash.activeTab = "archived"
    /\ viewMatches(dash.activeTab, dash.c, DashStatus)

\* C10: with d the number of calendar days from today to the valid-until
\* date, the status is EXPIRED iff d < 0, WARNING iff 0 <= d <= 30 and VALID
\* iff d > 30.
C10_StatusByDayDifference ==
    LET d == dash.c.galiojaIki - dash.today
    IN  DashStatus = (IF d < 0 THEN "expired" ELSE IF d <= 30 THEN "warning" ELSE "valid")

\* The step appends one entry to the history, for contract id with the action.
AppendsOne(id, action) ==
    /\ Len(history') = Len(history) + 1
    /\ SubSeq(history', 1, Len(history)) = history
    /\ history'[Len(history')].contract_id = id
    /\ history'[Len(history')].action = action

\* The stored row of id differs before and after the step in one of the nine
\* business fields or in the notes.
DataChanged(id) ==
    \/ \E k \in BusinessKeys : contracts'[id][k] # contracts[id][k]
    \/ contracts'[id].notes # contracts[id].notes

\* C11: every successful lifecycle operation appends exactly one history
\* entry for its contract id with the matching action: a create CREATED, an
\* update that changes a business field or the notes UPDATED, a toggle
\* ARCHIVED when the new flag is set and RESTORED when it is cleared, a delete
\* DELETED (history inserts do not fail in this specification).
C11_OneEntryPerMutation ==
    [][ (RequestStep /\ res'.status = 200) =>
          /\ (req'.route = "POST /api/contracts" /\ res'.message = "Created")
                => ( /\ res'.id \in Ids' \ Ids
                     /\ AppendsOne(res'.id, "CREATED") )
          /\ (req'.route = "POST /api/contracts" /\ res'.message = "Updated")
                => ( /\ req'.id \in Ids /\ req'.id \in Ids'
                     /\ IF DataChanged(req'.id)
                        THEN AppendsOne(req'.id, "UPDATED")
                        ELSE history' = history )
          /\ req'.route = "POST /api/contracts/:id/archive"
                => AppendsOne(req'.id, IF contracts'[req'.id].is_archived = 1
                                       THEN "ARCHIVED" ELSE "RESTORED")
          /\ req'.route = "DELETE /api/contracts/:id"
                => AppendsOne(req'.id, "DELETED")
      ]_vars

\* A contract was created, changed, archived or restored, and deleted, and
\* the history holds the three entries of its id in that order.
C11_Witness ==
    /\ nreq = 3
    /\ req.route = "DELETE /api/contracts/:id"
    /\ Len(history) = 3
    /\ \A n \in 1..3 : history[n].contract_id = req.id
    /\ history[1].action = "CREATED"
    /\ history[2].action \in {"UPDATED", "ARCHIVED"}
    /\ history[3].action = "DELETED"

TablesUnchanged ==
    contracts' = contracts /\ nextId' = nextId /\ history' = history

\* C13: a create, update or archive toggle from a logged-in session whose
\* role is neither admin nor sales, and a delete from a logged-in session whose
\* role is not admin, is answered 403 and leaves the contracts table and the
\* history table unchanged (a caller with no session is answered 401 by
\* isAuthenticated, which runs before hasRole).
C13_ForbiddenRoleChangesNothing ==
    [][ RequestStep =>
          /\ \A in \in PostInputs :
                ( /\ isAuthenticated(in[1]) /\ in[1].role \notin {"admin", "sales"}
                  /\ PostContract(in[1], in[2]) )
                => (res'.status = 403 /\ TablesUnchanged)
          /\ \A in \in IdInputs :
                ( /\ isAuthenticated(in[1]) /\ in[1].role \notin {"admin", "sales"}
                  /\ PostArchive(in[1], in[2]) )
                => (res'.status = 403 /\ TablesUnchanged)
          /\ \A in \in IdInputs :
                ( /\ isAuthenticated(in[1]) /\ in[1].role # "admin"
                  /\ DeleteContract(in[1], in[2]) )
                => (res'.status = 403 /\ TablesUnchanged)
      ]_vars

\* A delete of a stored contract was answered 403 and the contract is stored.
C13_Witness ==
    /\ req.route = "DELETE /api/contracts/:id"
    /\ res.status = 403
    /\ req.id \in Ids
    /\ EntriesOf(history, req.id, "DELETED") = {}

\* The body has no client name, no policy number or no valid-until date.
LacksRequired(c) ==
    \E k \in {"draudejas", "policyNo", "galiojaIki"} : c[k] \in {NULL, ""}

\* C14: a create or update, by a session that may write, whose body lacks the
\* client name, the policy number or the valid-until date is answered 400 and
\* leaves the contracts table and the history table unchanged.
C14_MissingFieldRejected ==
    [][ PostStep => \A in \in PostInputs :
          ( /\ MayWrite(in[1]) /\ LacksRequired(in[2])
            /\ PostContract(in[1], in[2]) )
          => (res'.status = 400 /\ TablesUnchanged)
      ]_vars

\* An update of a stored contract was answered 400.
C14_Witness ==
    /\ req.route = "POST /api/contracts"
    /\ res.status = 400
    /\ req.id \in Ids
    /\ EntriesOf(history, req.id, "UPDATED") = {}

\* C15: an update (with the required fields) or an archive toggle, by a
\* session that may write, that names a contract id with no stored row is
\* answered 404, creates no contract row and writes no history entry.
C15_UnknownIdNotFound ==
    [][ RequestStep =>
          /\ \A in \in PostInputs :
                ( /\ MayWrite(in[1]) /\ ~LacksRequired(in[2])
                  /\ in[2].id # 0 /\ in[2].id \notin Ids
                  /\ PostContract(in[1], in[2]) )
                => (res'.status = 404 /\ TablesUnchanged)
          /\ \A in \in IdInputs :
                ( /\ MayWrite(in[1]) /\ in[2] \notin Ids
                  /\ PostArchive(in[1], in[2]) )
                => (res'.status = 404 /\ TablesUnchanged)
      ]_vars

\* An update that named a deleted contract was answered 404.
C15_Witness ==
    /\ req.route = "POST /api/contracts"
    /\ res.status = 404
    /\ req.id \in DeletedIds
    /\ history[Len(history)].action = "DELETED"

\* The stored row has the nine business fields and the notes of the body.
Holds(row, c) ==
    /\ \A k \in BusinessKeys : row[k] = c[k]
    /\ row.notes = c.notes

\* C16: while history inserts fail, a create, update, archive toggle or
\* delete that passes the route's checks still commits its change to the
\* contracts table and is still answered with the success response; the
\* failed insert adds no history entry and undoes nothing.
C16_AuditFailureKeepsMutation ==
    [][ (RequestStep /\ audit = "fail") =>
          /\ history' = history
          /\ \A in \in PostInputs :
                ( /\ MayWrite(in[1]) /\ ~LacksRequired(in[2])
                  /\ PostContract(in[1], in[2]) )
                => /\ (in[2].id = 0
                        /\ MatchByKey(contracts, in[2].policyNo, in[2].valstybinisNr) = {})
                      => ( /\ res'.status = 200 /\ res'.message = "Created"
                           /\ Ids' = Ids \cup {res'.id} /\ res'.id \notin Ids
                           /\ Holds(contracts'[res'.id], in[2])
                           /\ \A i \in Ids : contracts'[i] = contracts[i] )
                   /\ in[2].id \in Ids
                      => ( /\ res'.status = 200 /\ res'.message = "Updated"
                           /\ Ids' = Ids
                           /\ Holds(contracts'[in[2].id], in[2]) )
          /\ \A in \in IdInputs :
                ( /\ MayWrite(in[1]) /\ in[2] \in Ids
                  /\ PostArchive(in[1], in[2]) )
                => ( /\ res'.status = 200
                     /\ contracts'[in[2]].is_archived = 1 - contracts[in[2]].is_archived
                     /\ res'.is_archived = (contracts'[in[2]].is_archived = 1) )
          /\ \A in \in IdInputs :
                ( /\ in[1].role = "admin"
                  /\ DeleteContract(in[1], in[2]) )
                => ( /\ res'.status = 200 /\ res'.message = "Deleted"
                     /\ Ids' = Ids \ {in[2]} )
      ]_vars

\* A stored contract was deleted while history inserts failed: the row is
\* gone, the answer is the success response, and no DELETED entry exists.
C16_Witness ==
    /\ audit = "fail"
    /\ req.route = "DELETE /api/contracts/:id"
    /\ res.status = 200
    /\ req.id \in DeletedIds
    /\ EntriesOf(history, req.id, "DELETED") = {}
    /\ EntriesOf(history, req.id, "CREATED") # {}

\* C17: every result of the history read of a contract id has the entries in
\* strict reverse order of the operations that wrote them (the rowid of an
\* entry is its place in the order of writing): of two entries the one
\* written later comes first, also when the operations follow each other at
\* once.
C17_HistoryNewestFirst ==
    \A id \in RequestIds \ {0} :
        \A rows \in GetHistory(id) :
            \A m, n \in 1..Len(rows) : m < n => rows[m].id > rows[n].id

\* The step handles an import.
ImportStep == RequestStep /\ req'.route = "POST /api/webhook/n8n"

\* C18: an import leaves the id, the notes and the is_archived flag of every
\* contract that was stored before it, the ones its rows match included, as
\* they were; every contract it inserts is non-archived and has an empty notes
\* list.
C18_ImportKeepsNotesAndFlag ==
    [][ ImportStep =>
          /\ \A i \in Ids :
                /\ i \in Ids'
                /\ contracts'[i].id = contracts[i].id
                /\ contracts'[i].notes = contracts[i].notes
                /\ contracts'[i].is_archived = contracts[i].is_archived
          /\ \A i \in Ids' \ Ids :
                /\ contracts'[i].id = i
                /\ contracts'[i].notes = <<>>
                /\ contracts'[i].is_archived = 0
      ]_vars

\* An archived contract with a note was matched by an import row that gave it
\* another client name; it is still archived and has its note.
C18_Witness ==
    /\ nreq = 3
    /\ req.route = "POST /api/webhook/n8n"
    /\ res.success > 0
    /\ \E i \in Ids :
          /\ contracts[i].is_archived = 1
          /\ contracts[i].notes = <<"n1">>
          /\ contracts[i].draudejas = "Petras"
          /\ EntriesOf(history, i, "ARCHIVED") # {}

\* The loop's state after the first n rows of the batch, run on the tables of
\* the current state.
AfterRows(batch, n) == RunImport(contracts, nextId, SubSeq(batch, 1, n))

\* C19: in an import a row with no resolvable policy number changes no
\* contract and neither count (the loop's state after the row is its state
\* before it), so successCount + failedCount is the number of rows of the
\* batch that have a resolvable policy number.
C19_SkippedRowNotCounted ==
    [][ ImportStep =>
          LET batch == req'.batch
          IN  /\ res'.success + res'.failed = Cardinality(WithPolicyNo(batch))
              /\ \A n \in (1..Len(batch)) \ WithPolicyNo(batch) :
                    LET before == AfterRows(batch, n - 1)
                        after == AfterRows(batch, n)
                    IN  /\ after.contracts = before.contracts
                        /\ after.nextId = before.nextId
                        /\ after.success = before.success
                        /\ after.failed = before.failed
                        /\ after.errors = before.errors
              /\ WithPolicyNo(batch) = {}
                    => (contracts' = contracts /\ nextId' = nextId /\ res'.errors = <<>>)
      ]_vars

\* A batch of a row without a policy number and a row that was stored.
C19_Witness ==
    /\ req.route = "POST /api/webhook/n8n"
    /\ Len(req.batch) = 2
    /\ ~Coerced[req.batch[1]].hasPolicyNo
    /\ Coerced[req.batch[2]].hasPolicyNo
    /\ res.success = 1 /\ res.failed = 0
    /\ Cardinality(Ids) = 1

\* C20: an import leaves the history table unchanged, whatever its batch
\* holds and whichever of the insert path and the update path its rows take.
C20_ImportWritesNoHistory ==
    [][ ImportStep => history' = history ]_vars

\* An import updated a contract that has a history entry and inserted a second
\* contract; the history has the one entry it had.
C20_Witness ==
    /\ nreq = 2
    /\ prev.route = "POST /api/contracts"
    /\ req.route = "POST /api/webhook/n8n"
    /\ res.success = 2
    /\ Cardinality(Ids) = 2
    /\ Len(history) = 1
    /\ history[1].action = "CREATED"
    /\ contracts[history[1].contract_id].draudejas = "Petras"

\* The task was completed more than seven days before day d.
Stale(row, d) ==
    /\ row.status = "completed"
    /\ row.completed_at # NoTime
    /\ d - row.completed_at[1] > 7

\* C21: after a read of the task list by a logged-in caller no task is left
\* that is completed with a completion time more than 7 days in the past, and
\* the rows the read removed are exactly those: pending tasks and tasks
\* completed within the last 7 days stay as they were.
C21_PurgeOnRead ==
    [][ \A sess \in Sessions :
          (isAuthenticated(sess) /\ GetTasks(sess)) =>
            /\ \A i \in DOMAIN tasks'.rows : ~Stale(tasks'.rows[i], day)
            /\ \A i \in DOMAIN tasks.rows :
                 IF Stale(tasks.rows[i], day)
                 THEN i \notin DOMAIN tasks'.rows
                 ELSE i \in DOMAIN tasks'.rows /\ tasks'.rows[i] = tasks.rows[i]
      ]_vars

\* The list was read when task 1, completed over a week before, and task 2,
\* completed exactly a week before, were stored: 1 is gone and 2 is listed.
C21_Witness ==
    /\ tasks.res.route = "GET /api/tasks"
    /\ tasks.res.status = 200
    /\ tasks.seq = 2
    /\ DOMAIN tasks.rows = {2}
    /\ tasks.rows[2].status = "completed"
    /\ tasks.rows[2].completed_at = At(day - 7)
    /\ 2 \in tasks.res.listed

\* Slot p holds an update of POST /api/contracts whose UPDATE is pending.
UpdatePending(p) ==
    /\ p \in DOMAIN inflight
    /\ inflight[p].route = "POST /api/contracts"
    /\ inflight[p].c.id # 0
    /\ inflight[p].pc = "run"

\* C22: when update requests for one contract overlap, the changes an update
\* logs are the changes relative to the row its UPDATE statement replaces:
\* the diff of the stored row at the write against the body.
C22_DiffAgainstReplacedRow ==
    [][ \A p \in Slots :
          (/\ UpdatePending(p)
           /\ inflight[p].c.id \in Ids
           /\ RunCallback(p))
          => inflight[p].changes = Changes(contracts[inflight[p].c.id], inflight[p].c)
      ]_vars

\* The rows of table cs that the import inserted into table before.
InsertedWithPair(before, cs, policyNo, valstybinisNr) ==
    { i \in (DOMAIN cs) \ (DOMAIN before) :
        cs[i].policyNo = policyNo /\ cs[i].valstybinisNr = valstybinisNr }

\* The stored row has the values the import writes for `contract`.
HoldsImported(row, contract) ==
    /\ row.policyNo = contract.policyNo
    /\ row.valstybinisNr = contract.valstybinisNr
    /\ row.draudejas = contract.draudejas
    /\ row.pardavejas = contract.pardavejas
    /\ row.ldGrupe = contract.ldGrupe
    /\ row.galiojaNuo = contract.galiojaNuo
    /\ row.galiojaIki = contract.galiojaIki
    /\ row.metineIsmoka = contract.metineIsmoka
    /\ row.ismoka = contract.ismoka

\* C23: the rows of one import batch are handled one after another, each
\* lookup seeing the writes of the rows before it: for every (policyNo,
\* valstybinisNr) pair of the batch the import inserts at most one contract,
\* and the last row of the batch with that pair gives a stored contract of
\* the pair its values (the later rows update the contract).
C23_BatchPairInsertedOnce ==
    [][ \A batch \in Batches :
          WebhookN8n(batch) =>
            \A n \in Persisted(batch) :
              LET contract == Coerced[batch[n]].contract
              IN  /\ Cardinality(InsertedWithPair(contracts, contracts',
                         contract.policyNo, contract.valstybinisNr)) <= 1
                  /\ (\A m \in Persisted(batch) :
                        m > n => ~( /\ Coerced[batch[m]].contract.policyNo = contract.policyNo
                                    /\ Coerced[batch[m]].contract.valstybinisNr
                                         = contract.valstybinisNr ))
                     => \E i \in DOMAIN contracts' : HoldsImported(contracts'[i], contract)
      ]_vars

\* The first request imported two rows of one pair into the empty table: one
\* contract is stored, with the client of the second row.
C23_Witness ==
    /\ nreq = 1
    /\ req.route = "POST /api/webhook/n8n"
    /\ req.batch = <<Row1, Row2>>
    /\ res.success = 2
    /\ DOMAIN contracts = {1}
    /\ contracts[1].policyNo = "POL-1"
    /\ contracts[1].draudejas = "Petras"

\* C24: when the dashboard has loaded the contracts, every stored archived
\* contract is in the archived tab, whatever its expiry status, and every
\* stored non-archived contract is in the active or the ended tab.
C24_TabsCoverStoredContracts ==
    [][ \A sess \in Sessions :
          (isAuthenticated(sess) /\ FetchContracts(sess)) =>
            \A i \in Ids :
              IF contracts[i].is_archived = 1
              THEN i \in Visible("archived")'
              ELSE i \in (Visible("active") \cup Visible("ended"))'
      ]_vars

\* C25: once a DELETED entry exists for an id, the id names no stored
\* contract and no later history entry carries it, whatever operations
\* follow and however an update or a toggle overlaps the delete.
C25_DeletionTerminal ==
    \A n \in 1..Len(history) :
        history[n].action = "DELETED" =>
            /\ history[n].contract_id \notin Ids
            /\ \A m \in (n + 1)..Len(history) :
                 history[m].contract_id # history[n].contract_id

\* C26: an update of POST /api/contracts leaves the id and the is_archived
\* flag of every stored contract as they were, whatever flag the body
\* carries, and an archive toggle leaves the id, the nine business fields and
\* the notes of every stored contract as they were: it changes is_archived and
\* atnaujinimoData of the contract it names and nothing else.
C26_FlagAndDataOrthogonal ==
    [][ /\ (PostStep /\ req'.id # 0) =>
              /\ Ids' = Ids
              /\ \A i \in Ids :
                   /\ contracts'[i].id = contracts[i].id
                   /\ contracts'[i].is_archived = contracts[i].is_archived
        /\ (RequestStep /\ req'.route = "POST /api/contracts/:id/archive") =>
              /\ Ids' = Ids
              /\ \A i \in Ids :
                   /\ contracts'[i].id = contracts[i].id
                   /\ \A k \in BusinessKeys : contracts'[i][k] = contracts[i][k]
                   /\ contracts'[i].notes = contracts[i].notes
                   /\ i # req'.id => contracts'[i] = contracts[i]
      ]_vars

\* Contract 1 was created, archived, and then updated with a body that
\* carries the flag 0 and another client: it is still archived.
C26_Witness ==
    /\ nreq = 3
    /\ prev.route = "POST /api/contracts/:id/archive"
    /\ prev.id = 1
    /\ req.route = "POST /api/contracts"
    /\ req.id = 1
    /\ res.message = "Updated"
    /\ contracts[1].draudejas = "Petras"
    /\ contracts[1].is_archived = 1

\* Slot p holds a create of POST /api/contracts whose INSERT is pending.
CreatePending(p) ==
    /\ p \in DOMAIN inflight
    /\ inflight[p].route = "POST /api/contracts"
    /\ inflight[p].c.id = 0
    /\ inflight[p].pc = "run"

\* C27: when create requests with the same (policyNo, valstybinisNr) pair
\* overlap, the INSERT of a create runs on a table that still has no row with
\* its pair, as its duplicate check found: no other request's insert comes
\* between the check and the insert, so at most one of the requests inserts.
C27_CheckAndInsertTogether ==
    [][ \A p \in Slots :
          (CreatePending(p) /\ RunCallback(p)) =>
            MatchByKey(contracts, inflight[p].c.policyNo, inflight[p].c.valstybinisNr) = {}
      ]_vars

\* No INSERT of a logHistory call is pending (and none fails while audit is
\* "ok").
AuditSettled ==
    /\ audit = "ok"
    /\ \A p \in DOMAIN inflight : inflight[p].pc # "log"

\* C28: in every state where no history insert is pending and none failed,
\* every stored contract has one more ARCHIVED than RESTORED entry when it is
\* archived and as many of each when it is not, also after archive toggles of
\* one contract that overlap.
C28_ArchivedEntriesBalance ==
    AuditSettled =>
        \A i \in Ids :
            Cardinality(EntriesOf(history, i, "ARCHIVED"))
              - Cardinality(EntriesOf(history, i, "RESTORED"))
            = (IF contracts[i].is_archived = 1 THEN 1 ELSE 0)

\* C29: every history entry carries a contract id that was assigned to a
\* contract row before (the ids below the AUTOINCREMENT counter): no route
\* writes an entry for an id that never existed, a delete of an id without a
\* stored row included.
C29_HistoryOfAssignedIds ==
    \A n \in 1..Len(history) :
        history[n].contract_id \in 1..(nextId - 1)

\* C30: a request without an authenticated session leaves the contracts
\* table as it was, on every route that writes contract rows. The create,
\* update, archive and delete routes are given the session of the caller; the
\* import route reads no session, so each of its steps is the step of any
\* caller, one without a session included.
C30_UnauthenticatedChangesNothing ==
    [][ /\ \A in \in PostInputs :
             (~isAuthenticated(in[1]) /\ PostContract(in[1], in[2]))
               => contracts' = contracts
        /\ \A in \in IdInputs :
             (~isAuthenticated(in[1]) /\ PostArchive(in[1], in[2]))
               => contracts' = contracts
        /\ \A in \in IdInputs :
             (~isAuthenticated(in[1]) /\ DeleteContract(in[1], in[2]))
               => contracts' = contracts
        /\ ImportStep => contracts' = contracts
      ]_vars

====
